---- MODULE Spec2Model ----
(***************************************************************************)
(* A model of the recursive DNS resolver caelansar/dns:                    *)
(*   src/src/packet.rs  PacketReader / PacketWriter (octet cursor)         *)
(*   src/src/dns.rs     header, question, record and packet codec          *)
(*   src/src/main.rs    recursive_lookup, handle_request, DnsUdpServer     *)
(*                                                                         *)
(* Octets are naturals 0..255, a buffer is a sequence of octets, a cursor  *)
(* position is 0-based as in std::io::Cursor.  Strings are sequences of    *)
(* code points ("a.x" is <<97, 46, 120>>).  A fallible function returns a  *)
(* record with an ok field, as the Rust Result does.  A u32 is the pair    *)
(* <<high 16 bits, low 16 bits>> of its value, which keeps every u32       *)
(* within the integers the model checker computes with.                    *)
(***************************************************************************)
EXTENDS Integers, Sequences, FiniteSets, TLC

VARIABLES
    cin,      \* codec harness: the value handed to write
    cwire,    \* codec harness: the octets the writer holds
    cret,     \* codec harness: the usize returned by write
    cout,     \* codec harness: the Result returned by read
    csent,    \* codec harness: the datagram cut from the writer's buffer
    cpc,      \* codec harness: "start", "written", "sent", "read"
    rbuf,     \* read_name: the buffer under the cursor
    rstart,   \* read_name: the cursor position when the call began
    rst,      \* read_name: the locals of the running call (see read_name_begin)
    riter,    \* read_name: loop iterations of the running call
    rcalls,   \* read_name: calls made on this cursor so far
    frames,   \* resolver: the stack of running recursive_lookup calls
    query,    \* resolver: the last upstream query lookup sent
    response, \* resolver: what the last lookup call got back
    returned, \* resolver: what the call that made the last query returned
    result,   \* resolver: what the outermost recursive_lookup returned
    lpc,      \* resolver: "running" or "done"
    incoming, \* server: the reader thread, "recv" or "panicked"
    handlers, \* server: each handler thread's position and request
    request_queue, \* server: the VecDeque of (src, request)
    received, \* server: the datagrams recv_from delivered, in order
    replies   \* server: the datagrams handle_request sent, in order

codecVars == <<cin, cwire, cret, cout, csent, cpc>>
nameVars == <<rbuf, rstart, rst, riter, rcalls>>

resolverVars == <<frames, query, response, returned, result, lpc>>
serverVars == <<incoming, handlers, request_queue, received, replies>>

vars == <<cin, cwire, cret, cout, csent, cpc, rbuf, rstart, rst, riter, rcalls,
          frames, query, response, returned, result, lpc,
          incoming, handlers, request_queue, received, replies>>

\* what the actions of one part leave alone
notCodecVars == <<nameVars, resolverVars, serverVars>>
notNameVars == <<codecVars, resolverVars, serverVars>>
notResolverVars == <<codecVars, nameVars, serverVars>>
notServerVars == <<codecVars, nameVars, resolverVars>>

----------------------------------------------------------------------------
(* Integer helpers: Rust's bit operators on unsigned integers.             *)

Pow2(n) == 2 ^ n

\* (x >> n) for an unsigned x
Shr(x, n) == x \div Pow2(n)

\* bit n of x, as 0 or 1
Bit(x, n) == (x \div Pow2(n)) % 2

\* x | y on 8-bit values
BitOr8(x, y) ==
    LET b(i) == IF Bit(x, i) = 1 \/ Bit(y, i) = 1 THEN Pow2(i) ELSE 0
    IN  b(0) + b(1) + b(2) + b(3) + b(4) + b(5) + b(6) + b(7)

\* x & y on 8-bit values
BitAnd8(x, y) ==
    LET b(i) == IF Bit(x, i) = 1 /\ Bit(y, i) = 1 THEN Pow2(i) ELSE 0
    IN  b(0) + b(1) + b(2) + b(3) + b(4) + b(5) + b(6) + b(7)

\* (x << n) as u8: the bits shifted out are lost
Shl8(x, n) == (x * Pow2(n)) % 256

\* `b as u8` for a bool
BoolU8(b) == IF b THEN 1 ELSE 0

Min(a, b) == IF a < b THEN a ELSE b

Only(S) == CHOOSE v \in S : TRUE

\* `let v = e; F(v)`: e is evaluated once and F sees its value
With(e, F(_)) == Only({ F(v) : v \in {e} })

----------------------------------------------------------------------------
(* PacketReader: reads over Cursor<buf> at a 0-based position.             *)

Eof == [ok |-> FALSE, err |-> "eof"]

\* read_exact of n octets at pos: the octets and the new position, or an
\* UnexpectedEof error when fewer than n octets remain.
read_exact(buf, pos, n) ==
    IF pos + n <= Len(buf)
    THEN [ok |-> TRUE, val |-> SubSeq(buf, pos + 1, pos + n), pos |-> pos + n]
    ELSE Eof

read_u8(buf, pos) ==
    With(read_exact(buf, pos, 1), LAMBDA r :
        IF r.ok THEN [ok |-> TRUE, val |-> r.val[1], pos |-> r.pos] ELSE Eof)

read_u16(buf, pos) ==
    With(read_exact(buf, pos, 2), LAMBDA r :
        IF r.ok
        THEN [ok |-> TRUE, val |-> r.val[1] * 256 + r.val[2], pos |-> r.pos]
        ELSE Eof)

read_u32(buf, pos) ==
    With(read_exact(buf, pos, 4), LAMBDA r :
        IF r.ok
        THEN [ok |-> TRUE,
              val |-> <<r.val[1] * 256 + r.val[2], r.val[3] * 256 + r.val[4]>>,
              pos |-> r.pos]
        ELSE Eof)

(* PacketWriter over a growing Vec: each write appends big-endian octets.  *)

write_u8(val) == <<val % 256>>

write_u16(val) == <<(val \div 256) % 256, val % 256>>

write_u32(val) == write_u16(val[1]) \o write_u16(val[2])

----------------------------------------------------------------------------
(* Strings.  String::from_utf8_lossy(&b).to_lowercase() on the octets of   *)
(* one label: an ASCII octet maps to its lowercase, and an octet that can  *)
(* never occur in UTF-8 (0xC0, 0xC1, 0xF5..0xFF) becomes U+FFFD.  The      *)
(* buffers of this model hold no other octet above 0x7F.                   *)

ReplacementChar == 65533

lossy_lower_octet(b) ==
    IF b >= 65 /\ b <= 90 THEN b + 32
    ELSE IF b >= 128 THEN ReplacementChar
    ELSE b

lossy_lower(octets) == [i \in 1..Len(octets) |-> lossy_lower_octet(octets[i])]

Dot == 46

\* name_part.join(".")
RECURSIVE join_dot(_)
join_dot(parts) ==
    IF Len(parts) = 0 THEN <<>>
    ELSE IF Len(parts) = 1 THEN parts[1]
    ELSE parts[1] \o <<Dot>> \o join_dot(Tail(parts))

\* name.split('.'): at least one part, an empty name gives one empty part
RECURSIVE split_dot(_)
split_dot(name) ==
    IF \A i \in 1..Len(name) : name[i] # Dot THEN <<name>>
    ELSE LET k == CHOOSE i \in 1..Len(name) :
                      name[i] = Dot /\ \A j \in 1..(i - 1) : name[j] # Dot
         IN  <<SubSeq(name, 1, k - 1)>> \o split_dot(SubSeq(name, k + 1, Len(name)))

----------------------------------------------------------------------------
(* PacketReader::read_name (packet.rs 54-102).                             *)

max_jumps == 20

None == -1

\* the locals at the top of the first loop iteration
read_name_begin(pos) ==
    [status |-> "loop", err |-> "", pos |-> pos, jumped |-> FALSE,
     jumps_performed |-> 0, first_jump_pos |-> None, name_part |-> <<>>,
     rv |-> <<>>]

\* read_name_finish without the seek back to the first jump
read_name_finish_no_seek(st) ==
    [st EXCEPT !.status = "ok", !.rv = join_dot(st.name_part)]

\* the exit of the loop on `break`: seek back after a jump, join the labels
read_name_finish(st) ==
    [st EXCEPT !.status = "ok",
               !.pos = IF st.jumped THEN st.first_jump_pos ELSE st.pos,
               !.rv = join_dot(st.name_part)]

read_name_fail(st, e) == [st EXCEPT !.status = "err", !.err = e]

\* the jump-limit test with >= for >
jump_limit_exceeded_early(st) == st.jumps_performed >= max_jumps

\* the jump-limit test at the top of the loop
jump_limit_exceeded(st) == st.jumps_performed > max_jumps

\* the arm of the loop for a compression pointer whose first octet is len
read_name_jump(buf, st, len) ==
    With(read_u8(buf, len.pos), LAMBDA b2 :
        IF ~b2.ok THEN read_name_fail([st EXCEPT !.pos = len.pos], "eof")
        ELSE [st EXCEPT
                 !.first_jump_pos =
                     IF st.first_jump_pos = None THEN b2.pos ELSE st.first_jump_pos,
                 !.pos = (len.val - 192) * 256 + b2.val,
                 !.jumped = TRUE,
                 !.jumps_performed = st.jumps_performed + 1])

\* the arm of the loop for a label of len octets
read_name_label(buf, st, len) ==
    With(read_exact(buf, len.pos, len.val), LAMBDA b :
        IF ~b.ok THEN read_name_fail([st EXCEPT !.pos = len.pos], "eof")
        ELSE [st EXCEPT !.pos = b.pos,
                        !.name_part = Append(st.name_part, lossy_lower(b.val))])

\* one iteration of the loop, from the locals st over the buffer buf
read_name_iter(buf, st) ==
    IF jump_limit_exceeded(st) THEN read_name_fail(st, "jumps")
    ELSE With(read_u8(buf, st.pos), LAMBDA len :
             IF ~len.ok THEN read_name_fail(st, "eof")
             ELSE IF BitAnd8(len.val, 192) = 192 THEN read_name_jump(buf, st, len)
             ELSE IF len.val = 0 THEN read_name_finish([st EXCEPT !.pos = len.pos])
             ELSE read_name_label(buf, st, len))

RECURSIVE read_name_loop(_, _)
read_name_loop(buf, st) ==
    IF st.status # "loop" THEN st
    ELSE With(read_name_iter(buf, st), LAMBDA nx : read_name_loop(buf, nx))

\* read_name as a function of the buffer and the cursor position
read_name(buf, pos) ==
    With(read_name_loop(buf, read_name_begin(pos)), LAMBDA st :
        IF st.status = "ok" THEN [ok |-> TRUE, val |-> st.rv, pos |-> st.pos]
        ELSE [ok |-> FALSE, err |-> st.err])

----------------------------------------------------------------------------
(* PacketWriter::get_name_len and write_name (packet.rs 140-160).          *)

RECURSIVE SumLen(_)
SumLen(parts) == IF Len(parts) = 0 THEN 0 ELSE 1 + Len(parts[1]) + SumLen(Tail(parts))

get_name_len(name) == SumLen(split_dot(name)) + 1

\* the octets of the parts, each after `part.len() as u8`
RECURSIVE write_parts(_)
write_parts(parts) ==
    IF Len(parts) = 0 THEN <<>>
    ELSE write_u8(Len(parts[1])) \o parts[1] \o write_parts(Tail(parts))

\* write_name without the terminating zero octet
write_name_no_zero(name) ==
    LET parts == split_dot(name)
    IN  [bytes |-> write_parts(parts), size |-> SumLen(parts)]

\* write_name: the octets appended and the returned size
write_name(name) ==
    LET parts == split_dot(name)
    IN  [bytes |-> write_parts(parts) \o write_u8(0),
         size |-> SumLen(parts) + 1]

----------------------------------------------------------------------------
(* ResultCode and DnsHeader (dns.rs).                                      *)

ResultCodes == {"NOERROR", "FORMERR", "SERVFAIL", "NXDOMAIN", "NOTIMP", "REFUSED"}

\* `rcode as u8`: the enum discriminant
ResultCode_to_num(rc) ==
    CASE rc = "NOERROR" -> 0
      [] rc = "FORMERR" -> 1
      [] rc = "SERVFAIL" -> 2
      [] rc = "NXDOMAIN" -> 3
      [] rc = "NOTIMP" -> 4
      [] rc = "REFUSED" -> 5

ResultCode_from_num(num) ==
    CASE num = 1 -> "FORMERR"
      [] num = 2 -> "SERVFAIL"
      [] num = 3 -> "NXDOMAIN"
      [] num = 4 -> "NOTIMP"
      [] num = 5 -> "REFUSED"
      [] OTHER -> "NOERROR"

DnsHeader_new ==
    [id |-> 0, qr |-> FALSE, opcode |-> 0, aa |-> FALSE, tc |-> FALSE,
     rd |-> FALSE, ra |-> FALSE, z |-> FALSE, ad |-> FALSE, cd |-> FALSE,
     rcode |-> "NOERROR",
     qd_count |-> 0, an_count |-> 0, ns_count |-> 0, ar_count |-> 0]

\* The decoding of the two flag octets in DnsHeader::read.
DnsHeader_flags(a, b) ==
    [rd |-> BitAnd8(a, Pow2(0)) > 0,
     tc |-> BitAnd8(a, Pow2(1)) > 0,
     aa |-> BitAnd8(a, Pow2(2)) > 0,
     opcode |-> Shr(a, 3),
     qr |-> BitAnd8(a, Pow2(7)) > 0,
     rcode |-> ResultCode_from_num(b),
     cd |-> BitAnd8(b, Pow2(4)) > 0,
     ad |-> BitAnd8(b, Pow2(5)) > 0,
     z |-> BitAnd8(b, Pow2(6)) > 0,
     ra |-> BitAnd8(b, Pow2(7)) > 0]

\* the header fields from the six u16 read at pos
DnsHeader_fields(id, flags, qd, an, ns, ar) ==
    With(DnsHeader_flags(Shr(flags, 8), flags % 256), LAMBDA f :
        [id |-> id, qr |-> f.qr, opcode |-> f.opcode,
         aa |-> f.aa, tc |-> f.tc, rd |-> f.rd, ra |-> f.ra,
         z |-> f.z, ad |-> f.ad, cd |-> f.cd, rcode |-> f.rcode,
         qd_count |-> qd, an_count |-> an, ns_count |-> ns, ar_count |-> ar])

DnsHeader_read(buf, pos) ==
    With(read_exact(buf, pos, 12), LAMBDA r :
        IF ~r.ok THEN Eof
        ELSE [ok |-> TRUE,
              val |-> DnsHeader_fields(read_u16(buf, pos).val,
                                       read_u16(buf, pos + 2).val,
                                       read_u16(buf, pos + 4).val,
                                       read_u16(buf, pos + 6).val,
                                       read_u16(buf, pos + 8).val,
                                       read_u16(buf, pos + 10).val),
              pos |-> pos + 12])

\* DnsHeader::write: the 12 octets and the returned size (always 12).
DnsHeader_write(h) ==
    LET a == BitOr8(BitOr8(BitOr8(BitOr8(BoolU8(h.rd), Shl8(BoolU8(h.tc), 1)),
                                  Shl8(BoolU8(h.aa), 2)),
                           Shl8(h.opcode, 3)),
                    Shl8(BoolU8(h.qr), 7))
        b == BitOr8(BitOr8(BitOr8(BitOr8(ResultCode_to_num(h.rcode),
                                         Shl8(BoolU8(h.cd), 4)),
                                  Shl8(BoolU8(h.ad), 5)),
                           Shl8(BoolU8(h.z), 6)),
                    Shl8(BoolU8(h.ra), 7))
    IN  [bytes |-> write_u16(h.id) \o write_u8(a) \o write_u8(b)
                   \o write_u16(h.qd_count) \o write_u16(h.an_count)
                   \o write_u16(h.ns_count) \o write_u16(h.ar_count),
         size |-> 12]

----------------------------------------------------------------------------
(* QueryType, DnsQuestion, DnsRecord and DnsPacket (dns.rs).               *)

UNKNOWN(n) == [tag |-> "UNKNOWN", n |-> n]
QT(tag) == [tag |-> tag, n |-> 0]

QueryType_to_num(q) ==
    CASE q.tag = "UNKNOWN" -> q.n
      [] q.tag = "A" -> 1
      [] q.tag = "NS" -> 2
      [] q.tag = "CNAME" -> 5
      [] q.tag = "SOA" -> 6
      [] q.tag = "MX" -> 15
      [] q.tag = "AAAA" -> 28

\* a from_num without the arm for 15
QueryType_from_num_no_mx(num) ==
    CASE num = 1 -> QT("A")
      [] num = 2 -> QT("NS")
      [] num = 5 -> QT("CNAME")
      [] num = 6 -> QT("SOA")
      [] num = 28 -> QT("AAAA")
      [] OTHER -> UNKNOWN(num)

QueryType_from_num(num) ==
    CASE num = 1 -> QT("A")
      [] num = 2 -> QT("NS")
      [] num = 5 -> QT("CNAME")
      [] num = 6 -> QT("SOA")
      [] num = 15 -> QT("MX")
      [] num = 28 -> QT("AAAA")
      [] OTHER -> UNKNOWN(num)

DnsQuestion_read(buf, pos) ==
    With(read_name(buf, pos), LAMBDA name :
        IF ~name.ok THEN [ok |-> FALSE, err |-> name.err]
        ELSE With(read_exact(buf, name.pos, 4), LAMBDA r :
                 IF ~r.ok THEN Eof
                 ELSE [ok |-> TRUE,
                       val |-> [name |-> name.val,
                                qtype |-> QueryType_from_num(read_u16(buf, name.pos).val),
                                qclass |-> read_u16(buf, name.pos + 2).val],
                       pos |-> r.pos]))

DnsQuestion_write(q) ==
    LET n == write_name(q.name)
    IN  [bytes |-> n.bytes \o write_u16(QueryType_to_num(q.qtype)) \o write_u16(q.qclass),
         size |-> n.size + 4]

\* Ipv4Addr::new from the four octets of raw_addr
Ipv4_from_raw(raw) ==
    <<Shr(raw[1], 8) % 256, raw[1] % 256, Shr(raw[2], 8) % 256, raw[2] % 256>>

\* Ipv6Addr::new from the eight halves of the four raw words
Ipv6_from_raw(r1, r2, r3, r4) ==
    <<r1[1], r1[2], r2[1], r2[2], r3[1], r3[2], r4[1], r4[2]>>

Failed(r) == [ok |-> FALSE, err |-> r.err]

\* the SOA arm of DnsRecord::read, after m_name
DnsRecord_read_soa(buf, domain, ttl, m_name) ==
    With(read_name(buf, m_name.pos), LAMBDA r_name :
        IF ~r_name.ok THEN Failed(r_name)
        ELSE With(read_exact(buf, r_name.pos, 20), LAMBDA r :
                 IF ~r.ok THEN Eof
                 ELSE [ok |-> TRUE,
                       val |-> [type |-> "SOA", domain |-> domain,
                                m_name |-> m_name.val,
                                r_name |-> r_name.val,
                                serial |-> read_u32(buf, r_name.pos).val,
                                refresh |-> read_u32(buf, r_name.pos + 4).val,
                                retry |-> read_u32(buf, r_name.pos + 8).val,
                                expire |-> read_u32(buf, r_name.pos + 12).val,
                                minimum |-> read_u32(buf, r_name.pos + 16).val,
                                ttl |-> ttl],
                       pos |-> r.pos]))

\* the match on qtype in DnsRecord::read; q is the cursor after rdlength
DnsRecord_read_rdata(buf, q, qtype, domain, ttl, qtype_num, data_len) ==
    CASE qtype.tag = "A" ->
           With(read_u32(buf, q), LAMBDA raw :
               IF ~raw.ok THEN Eof
               ELSE [ok |-> TRUE,
                     val |-> [type |-> "A", domain |-> domain,
                              addr |-> Ipv4_from_raw(raw.val), ttl |-> ttl],
                     pos |-> raw.pos])
      [] qtype.tag = "AAAA" ->
           With(read_exact(buf, q, 16), LAMBDA r :
               IF ~r.ok THEN Eof
               ELSE [ok |-> TRUE,
                     val |-> [type |-> "AAAA", domain |-> domain,
                              addr |-> Ipv6_from_raw(read_u32(buf, q).val,
                                                     read_u32(buf, q + 4).val,
                                                     read_u32(buf, q + 8).val,
                                                     read_u32(buf, q + 12).val),
                              ttl |-> ttl],
                     pos |-> r.pos])
      [] qtype.tag \in {"NS", "CNAME"} ->
           With(read_name(buf, q), LAMBDA host :
               IF ~host.ok THEN Failed(host)
               ELSE [ok |-> TRUE,
                     val |-> [type |-> qtype.tag, domain |-> domain,
                              host |-> host.val, ttl |-> ttl],
                     pos |-> host.pos])
      [] qtype.tag = "SOA" ->
           With(read_name(buf, q), LAMBDA m_name :
               IF ~m_name.ok THEN Failed(m_name)
               ELSE DnsRecord_read_soa(buf, domain, ttl, m_name))
      [] qtype.tag = "MX" ->
           With(read_u16(buf, q), LAMBDA priority :
               IF ~priority.ok THEN Eof
               ELSE With(read_name(buf, priority.pos), LAMBDA host :
                        IF ~host.ok THEN Failed(host)
                        ELSE [ok |-> TRUE,
                              val |-> [type |-> "MX", domain |-> domain,
                                       priority |-> priority.val,
                                       host |-> host.val, ttl |-> ttl],
                              pos |-> host.pos]))
      [] OTHER ->
           \* buffer.step(data_len): a relative seek, which may pass the end
           [ok |-> TRUE,
            val |-> [type |-> "UNKNOWN", domain |-> domain, qtype |-> qtype_num,
                     data_len |-> data_len, ttl |-> ttl],
            pos |-> q + data_len]

DnsRecord_read(buf, pos) ==
    With(read_name(buf, pos), LAMBDA domain :
        IF ~domain.ok THEN Failed(domain)
        ELSE With(read_exact(buf, domain.pos, 10), LAMBDA r :
                 IF ~r.ok THEN Eof
                 ELSE With(read_u16(buf, domain.pos).val, LAMBDA qtype_num :
                          DnsRecord_read_rdata(buf, r.pos,
                                               QueryType_from_num(qtype_num),
                                               domain.val,
                                               read_u32(buf, domain.pos + 4).val,
                                               qtype_num,
                                               read_u16(buf, domain.pos + 8).val))))

\* name, type, class 1 and ttl, as every arm of DnsRecord::write begins
DnsRecord_write_head(domain, qtype, ttl) ==
    write_name(domain).bytes \o write_u16(QueryType_to_num(qtype))
        \o write_u16(1) \o write_u32(ttl)

RECURSIVE write_u16_all(_)
write_u16_all(segs) ==
    IF Len(segs) = 0 THEN <<>> ELSE write_u16(segs[1]) \o write_u16_all(Tail(segs))

\* DnsRecord::write: the octets appended and the returned size
DnsRecord_write(rec) ==
    CASE rec.type = "A" ->
           [bytes |-> DnsRecord_write_head(rec.domain, QT("A"), rec.ttl)
                      \o write_u16(4)
                      \o write_u8(rec.addr[1]) \o write_u8(rec.addr[2])
                      \o write_u8(rec.addr[3]) \o write_u8(rec.addr[4]),
            size |-> write_name(rec.domain).size + 14]
      [] rec.type = "AAAA" ->
           [bytes |-> DnsRecord_write_head(rec.domain, QT("AAAA"), rec.ttl)
                      \o write_u16(16) \o write_u16_all(rec.addr),
            size |-> write_name(rec.domain).size + 10 + 2 * Len(rec.addr)]
      [] rec.type = "NS" ->
           [bytes |-> DnsRecord_write_head(rec.domain, QT("NS"), rec.ttl)
                      \o write_u16(get_name_len(rec.host))
                      \o write_name(rec.host).bytes,
            size |-> write_name(rec.domain).size + 8 + 2 + write_name(rec.host).size]
      [] rec.type = "CNAME" ->
           [bytes |-> DnsRecord_write_head(rec.domain, QT("CNAME"), rec.ttl)
                      \o write_u16(get_name_len(rec.host))
                      \o write_name(rec.host).bytes,
            size |-> write_name(rec.domain).size + 8 + 2 + write_name(rec.host).size]
      [] rec.type = "SOA" ->
           [bytes |-> DnsRecord_write_head(rec.domain, QT("SOA"), rec.ttl)
                      \o write_name(rec.m_name).bytes \o write_name(rec.r_name).bytes
                      \o write_u32(rec.serial) \o write_u32(rec.refresh)
                      \o write_u32(rec.retry) \o write_u32(rec.expire)
                      \o write_u32(rec.minimum),
            size |-> write_name(rec.domain).size + 8 + write_name(rec.m_name).size
                     + write_name(rec.r_name).size + 20]
      [] rec.type = "MX" ->
           [bytes |-> DnsRecord_write_head(rec.domain, QT("MX"), rec.ttl)
                      \o write_u16((get_name_len(rec.host) % 65536) + 2)
                      \o write_u16(rec.priority)
                      \o write_name(rec.host).bytes,
            size |-> write_name(rec.domain).size + 8 + 4 + 2
                     + write_name(rec.host).size]
      [] OTHER ->
           \* the UNKNOWN arm only prints the record
           [bytes |-> <<>>, size |-> 0]

DnsPacket_new ==
    [header |-> DnsHeader_new, questions |-> <<>>, answers |-> <<>>,
     authorities |-> <<>>, resources |-> <<>>]

\* the loop `for _ in 0..n { question.read(buffer)?; push }`, from the
\* questions acc read so far
RECURSIVE read_questions(_, _, _, _)
read_questions(buf, pos, n, acc) ==
    IF n = 0 THEN [ok |-> TRUE, val |-> acc, pos |-> pos]
    ELSE With(DnsQuestion_read(buf, pos), LAMBDA q :
             IF ~q.ok THEN Failed(q)
             ELSE read_questions(buf, q.pos, n - 1, Append(acc, q.val)))

\* the loop `for _ in 0..n { DnsRecord::read(buffer)?; push }`, from the
\* records acc read so far
RECURSIVE read_records(_, _, _, _)
read_records(buf, pos, n, acc) ==
    IF n = 0 THEN [ok |-> TRUE, val |-> acc, pos |-> pos]
    ELSE With(DnsRecord_read(buf, pos), LAMBDA r :
             IF ~r.ok THEN Failed(r)
             ELSE read_records(buf, r.pos, n - 1, Append(acc, r.val)))

\* from_buffer after the questions
DnsPacket_read_sections(buf, h, qs) ==
    With(read_records(buf, qs.pos, h.an_count, <<>>), LAMBDA an :
        IF ~an.ok THEN Failed(an)
        ELSE With(read_records(buf, an.pos, h.ns_count, <<>>), LAMBDA ns :
        IF ~ns.ok THEN Failed(ns)
        ELSE With(read_records(buf, ns.pos, h.ar_count, <<>>), LAMBDA ar :
        IF ~ar.ok THEN Failed(ar)
        ELSE [ok |-> TRUE,
              val |-> [header |-> h, questions |-> qs.val, answers |-> an.val,
                       authorities |-> ns.val, resources |-> ar.val],
              pos |-> ar.pos])))

DnsPacket_from_buffer(buf) ==
    With(DnsHeader_read(buf, 0), LAMBDA h :
        IF ~h.ok THEN Failed(h)
        ELSE With(read_questions(buf, h.pos, h.val.qd_count, <<>>), LAMBDA qs :
                 IF ~qs.ok THEN Failed(qs)
                 ELSE DnsPacket_read_sections(buf, h.val, qs)))

RECURSIVE write_questions(_)
write_questions(qs) ==
    IF Len(qs) = 0 THEN [bytes |-> <<>>, size |-> 0]
    ELSE LET w == DnsQuestion_write(qs[1])
             rest == write_questions(Tail(qs))
         IN  [bytes |-> w.bytes \o rest.bytes, size |-> w.size + rest.size]

RECURSIVE write_records(_)
write_records(rs) ==
    IF Len(rs) = 0 THEN [bytes |-> <<>>, size |-> 0]
    ELSE LET w == DnsRecord_write(rs[1])
             rest == write_records(Tail(rs))
         IN  [bytes |-> w.bytes \o rest.bytes, size |-> w.size + rest.size]

\* the header counts DnsPacket::write stores before it writes the header
DnsPacket_counts(p) ==
    [p.header EXCEPT !.qd_count = Len(p.questions) % 65536,
                     !.an_count = Len(p.answers) % 65536,
                     !.ar_count = Len(p.resources) % 65536,
                     !.ns_count = Len(p.authorities) % 65536]

\* DnsPacket::write: the octets appended, the returned size and the packet
\* as the call leaves it (its header counts are updated in place)
DnsPacket_write(p) ==
    LET header == DnsPacket_counts(p)
        h == DnsHeader_write(header)
        qs == write_questions(p.questions)
        an == write_records(p.answers)
        ns == write_records(p.authorities)
        ar == write_records(p.resources)
    IN  [bytes |-> h.bytes \o qs.bytes \o an.bytes \o ns.bytes \o ar.bytes,
         size |-> h.size + qs.size + an.size + ns.size + ar.size,
         packet |-> [p EXCEPT !.header = header]]

----------------------------------------------------------------------------
(* Header round trip: write a header, then read the octets back.           *)

\* the ids and counts the header harness draws from (u16 corner values)
HeaderIds == {4660, 65535}
HeaderCounts == {0, 65535}
HeaderOpcodes == {0, 1, 8, 15}

Headers ==
    { [id |-> i, qr |-> f[1], opcode |-> op, aa |-> f[2], tc |-> f[3],
       rd |-> f[4], ra |-> f[5], z |-> f[6], ad |-> f[7], cd |-> f[8],
       rcode |-> rc,
       qd_count |-> c, an_count |-> 0, ns_count |-> 1, ar_count |-> c] :
        i \in HeaderIds, op \in HeaderOpcodes, rc \in ResultCodes,
        c \in HeaderCounts, f \in [1..8 -> BOOLEAN] }

NoValue == [ok |-> FALSE, err |-> "none"]

\* the parts of the state a harness does not use
CodecIdle ==
    /\ cin = NoValue /\ cwire = <<>> /\ cret = 0 /\ cout = NoValue
    /\ csent = <<>> /\ cpc = "off"
NameIdle == rbuf = <<>> /\ rstart = 0 /\ rst = NoValue /\ riter = 0 /\ rcalls = 0
ResolverIdle ==
    /\ frames = <<>> /\ query = NoValue /\ response = NoValue
    /\ returned = NoValue /\ result = NoValue /\ lpc = "off"
ServerIdle ==
    /\ incoming = "off" /\ handlers = <<>> /\ request_queue = <<>>
    /\ received = <<>> /\ replies = <<>>

InitHeader ==
    /\ cin \in Headers
    /\ cwire = <<>>
    /\ cret = 0
    /\ cout = NoValue
    /\ csent = <<>>
    /\ cpc = "start"
    /\ NameIdle /\ ResolverIdle /\ ServerIdle

HeaderWrite ==
    /\ cpc = "start"
    /\ LET w == DnsHeader_write(cin)
       IN  /\ cwire' = w.bytes
           /\ cret' = w.size
    /\ cpc' = "written"
    /\ UNCHANGED <<cin, cout, csent>>
    /\ UNCHANGED notCodecVars

HeaderRead ==
    /\ cpc = "written"
    /\ cout' = DnsHeader_read(cwire, 0)
    /\ cpc' = "read"
    /\ UNCHANGED <<cin, cwire, cret, csent>>
    /\ UNCHANGED notCodecVars

NextHeader == HeaderWrite \/ HeaderRead

SpecHeader == InitHeader /\ [][NextHeader]_vars

\* C3: for every in-range header H, reading the 12 octets that write
\* produced yields a header equal to H in every field.
C3_HeaderRoundTrip ==
    cpc = "read" => (cout.ok /\ cout.val = cin /\ cout.pos = 12)

----------------------------------------------------------------------------
(* read_name harness: a cursor over a buffer, read_name run one loop       *)
(* iteration per step, and further calls on the same cursor as the callers *)
(* make them (tests::packet_buffer_reader, DnsQuestion::read,              *)
(* DnsRecord::read).                                                       *)

\* octets of the enumerated buffers: end of name, label lengths 1 and 2,
\* 'A' (also a label length of 65), and the pointer marker 0xC0
NameAlphabet == {0, 1, 2, 65, 192}

MaxBufLen == 4

MaxCalls == 3

ShortBufs == UNION { [1..n -> NameAlphabet] : n \in 0..MaxBufLen }

\* the test vector of tests::packet_buffer_reader
CanonicalVector ==
    <<114, 107, 129, 128, 0, 1, 0, 2, 0, 0, 0, 0, 5, 98,
      97, 105, 100, 117, 3, 99, 111, 109, 0, 0, 1, 0, 1, 192,
      12, 0, 1, 0, 1, 0, 0, 0, 178, 0, 4, 220, 181, 38,
      148, 192, 12, 0, 1, 0, 1, 0, 0, 0, 178, 0, 4, 220,
      181, 38, 251>>

\* k pointers, each to the next, then the label "A" and the end of the name
Chain(k) ==
    [i \in 1..(2 * k) |-> IF i % 2 = 1 THEN 192 ELSE i] \o <<1, 65, 0>>

ChainJumps == {max_jumps - 1, max_jumps, max_jumps + 1}

\* octets the callers consume between two names: none (SOA m_name, r_name),
\* qtype and qclass, or the fixed part and rdata of an A record
Skips == {0, 4, 14}

InitReadName ==
    /\ \/ rbuf \in ShortBufs /\ rstart \in 0..Len(rbuf)
       \/ rbuf = CanonicalVector /\ rstart \in {12, 27, 43}
       \/ rbuf \in { Chain(k) : k \in ChainJumps } /\ rstart \in {0, 2}
    /\ rst = read_name_begin(rstart)
    /\ riter = 0
    /\ rcalls = 1
    /\ CodecIdle /\ ResolverIdle /\ ServerIdle

\* one iteration of the loop of read_name
ReadNameStep ==
    /\ rst # NoValue
    /\ rst.status = "loop"
    /\ rst' = read_name_iter(rbuf, rst)
    /\ riter' = riter + 1
    /\ UNCHANGED <<rbuf, rstart, rcalls>>
    /\ UNCHANGED notNameVars

\* the caller reads k octets after a name and calls read_name again
ReadNameNext ==
    /\ rst # NoValue
    /\ rst.status = "ok"
    /\ rcalls < MaxCalls
    /\ \E k \in Skips :
          LET r == read_exact(rbuf, rst.pos, k)
          IN  /\ r.ok
              /\ rstart' = r.pos
              /\ rst' = read_name_begin(r.pos)
    /\ riter' = 0
    /\ rcalls' = rcalls + 1
    /\ UNCHANGED rbuf
    /\ UNCHANGED notNameVars

NextReadName == ReadNameStep \/ ReadNameNext

SpecReadName == InitReadName /\ [][NextReadName]_vars

(* What decoding the name at pos needs, with k pointer jumps allowed:      *)
(* "ok", "eof" (it runs past the end of the buffer) or "more" (it needs    *)
(* more than k jumps).                                                     *)
RECURSIVE C5_Walk(_, _, _)
C5_Walk(buf, pos, k) ==
    IF pos >= Len(buf) THEN "eof"
    ELSE LET len == buf[pos + 1]
         IN  IF len >= 192
             THEN IF pos + 1 >= Len(buf) THEN "eof"
                  ELSE IF k = 0 THEN "more"
                  ELSE C5_Walk(buf, (len - 192) * 256 + buf[pos + 2], k - 1)
             ELSE IF len = 0 THEN "ok"
             ELSE IF pos + 1 + len > Len(buf) THEN "eof"
             ELSE C5_Walk(buf, pos + 1 + len, k)

\* C5: read_name terminates on every buffer and start position (its loop
\* runs at most (max_jumps + 2) * (Len(buf) + 1) times and follows at most
\* max_jumps + 1 pointers); it returns the jump-limit error exactly for a
\* name that needs more than max_jumps jumps, an error for a name that runs
\* past the end of the buffer, and Ok for a name decodable with at most
\* max_jumps jumps.
C5_ReadNameTerminates ==
    rst # NoValue =>
        /\ riter <= (max_jumps + 2) * (Len(rbuf) + 1)
        /\ rst.jumps_performed <= max_jumps + 1
        /\ rst.status = "ok" => C5_Walk(rbuf, rstart, max_jumps) = "ok"
        /\ rst.status = "err" =>
              /\ rst.err \in {"jumps", "eof"}
              /\ rst.err = "jumps" =>
                    /\ C5_Walk(rbuf, rstart, max_jumps) = "more"
                    /\ rst.jumps_performed = max_jumps + 1
              /\ rst.err = "eof" => C5_Walk(rbuf, rstart, max_jumps) = "eof"

\* a pointer that points to itself has been rejected after 21 jumps
C5_Witness ==
    /\ rst # NoValue
    /\ rbuf = <<192, 0>>
    /\ rst.status = "err" /\ rst.err = "jumps"
    /\ rst.jumps_performed = max_jumps + 1

(* Where the plain labels that start at pos end: at a pointer or at the    *)
(* zero octet.  Defined where the name does not run past the buffer.       *)
RECURSIVE C6_PlainEnd(_, _)
C6_PlainEnd(buf, pos) ==
    LET len == buf[pos + 1]
    IN  IF len >= 192 THEN [ptr |-> TRUE, at |-> pos]
        ELSE IF len = 0 THEN [ptr |-> FALSE, at |-> pos]
        ELSE C6_PlainEnd(buf, pos + 1 + len)

\* the labels of the name at pos, pointers followed
RECURSIVE C6_Labels(_, _)
C6_Labels(buf, pos) ==
    LET len == buf[pos + 1]
    IN  IF len >= 192 THEN C6_Labels(buf, (len - 192) * 256 + buf[pos + 2])
        ELSE IF len = 0 THEN <<>>
        ELSE <<lossy_lower(SubSeq(buf, pos + 2, pos + 1 + len))>>
                 \o C6_Labels(buf, pos + 1 + len)

baidu_com == <<98, 97, 105, 100, 117, 46, 99, 111, 109>>

\* C6: after a successful read_name the cursor is just after the two octets
\* of the first pointer met, or just after the zero octet when the name has
\* no pointer; the name is the labels before the pointer followed by the
\* labels at the jump targets; on the canonical vector the names at 12, 27
\* and 43 are all "baidu.com" and the cursor ends at 23, 29 and 45.
C6_CursorAfterFirstPointer ==
    (rst # NoValue /\ rst.status = "ok") =>
        LET e == C6_PlainEnd(rbuf, rstart)
        IN  /\ rst.pos = IF e.ptr THEN e.at + 2 ELSE e.at + 1
            /\ rst.rv = join_dot(C6_Labels(rbuf, rstart))
            /\ rbuf = CanonicalVector =>
                  /\ rstart \in {12, 27, 43} => rst.rv = baidu_com
                  /\ rstart = 12 => rst.pos = 23
                  /\ rstart = 27 => rst.pos = 29
                  /\ rstart = 43 => rst.pos = 45

\* the third consecutive read_name on the canonical vector has returned
C6_Witness ==
    /\ rst # NoValue
    /\ rbuf = CanonicalVector
    /\ rcalls = 3
    /\ rstart = 43
    /\ rst.status = "ok"
    /\ rst.jumped

----------------------------------------------------------------------------
(* Name round trip: write_name of a domain, then read_name of the octets.  *)

MaxLabelLen == 2

MaxLabels == 2

LabelChars == {97, 122}

\* labels of 1..MaxLabelLen lowercase letters, the longest label (63
\* octets), and the labels of "baidu.com"
NameLabels ==
    UNION { [1..n -> LabelChars] : n \in 1..MaxLabelLen }
        \cup { [i \in 1..63 |-> 97], <<98, 97, 105, 100, 117>>, <<99, 111, 109>> }

LabelSeqs == UNION { [1..n -> NameLabels] : n \in 1..MaxLabels }

\* the domains the harnesses draw from, with the labels they are made of
Domains == { [name |-> join_dot(ls), labels |-> ls] : ls \in LabelSeqs }

InitName ==
    /\ cin \in Domains
    /\ cwire = <<>>
    /\ cret = 0
    /\ cout = NoValue
    /\ csent = <<>>
    /\ cpc = "start"
    /\ NameIdle /\ ResolverIdle /\ ServerIdle

NameWrite ==
    /\ cpc = "start"
    /\ LET w == write_name(cin.name)
       IN  /\ cwire' = w.bytes
           /\ cret' = w.size
    /\ cpc' = "written"
    /\ UNCHANGED <<cin, cout, csent>>
    /\ UNCHANGED notCodecVars

NameRead ==
    /\ cpc = "written"
    /\ cout' = read_name(cwire, 0)
    /\ cpc' = "read"
    /\ UNCHANGED <<cin, cwire, cret, csent>>
    /\ UNCHANGED notCodecVars

NextName == NameWrite \/ NameRead

SpecName == InitName /\ [][NextName]_vars

\* the wire form of a list of labels: each length octet and its label
RECURSIVE C7_LabelOctets(_)
C7_LabelOctets(ls) ==
    IF Len(ls) = 0 THEN <<>>
    ELSE <<Len(ls[1])>> \o ls[1] \o C7_LabelOctets(Tail(ls))

\* C7: for every lowercase domain of labels of 1..63 octets, write_name
\* emits each label's length octet and octets and then one zero octet,
\* returns get_name_len(d), the number of octets emitted; read_name over the
\* octets returns d and leaves the cursor at their end; "baidu.com" is
\* written as 05 62 61 69 64 75 03 63 6f 6d 00.
C7_NameRoundTrip ==
    /\ cpc \in {"written", "read"} =>
          /\ cwire = C7_LabelOctets(cin.labels) \o <<0>>
          /\ cret = get_name_len(cin.name)
          /\ cret = Len(cwire)
          /\ cin.name = baidu_com =>
                cwire = <<5, 98, 97, 105, 100, 117, 3, 99, 111, 109, 0>>
    /\ cpc = "read" =>
          /\ cout.ok
          /\ cout.val = cin.name
          /\ cout.pos = Len(cwire)

\* a two-label domain with a 63-octet label has been written and read back
C7_Witness ==
    /\ cpc = "read"
    /\ Len(cin.labels) = 2
    /\ Len(cin.labels[1]) = 63
    /\ cout.ok
    /\ Len(cwire) = 64 + Len(cin.labels[2]) + 2

----------------------------------------------------------------------------
(* Record round trip: DnsRecord::write of a record, then DnsRecord::read.  *)

example_com == <<101, 120, 97, 109, 112, 108, 101, 46, 99, 111, 109>>

RecDomains == {<<97>>, <<97, 46, 122>>, example_com}

Ttls == {<<0, 0>>, <<0, 3600>>, <<65535, 65535>>}

Ipv4s == {<<93, 184, 216, 34>>, <<255, 0, 0, 1>>}

Ipv6s == {<<8193, 3512, 0, 0, 0, 0, 0, 65535>>}

U16s == {0, 10, 65535}

U32s == {<<0, 1>>, <<65535, 65535>>}

RecordsA == { [type |-> "A", domain |-> d, addr |-> a, ttl |-> t] :
                 d \in RecDomains, a \in Ipv4s, t \in Ttls }
RecordsAAAA == { [type |-> "AAAA", domain |-> d, addr |-> a, ttl |-> t] :
                    d \in RecDomains, a \in Ipv6s, t \in Ttls }
RecordsNS == { [type |-> "NS", domain |-> d, host |-> h, ttl |-> t] :
                  d \in RecDomains, h \in RecDomains, t \in Ttls }
RecordsCNAME == { [type |-> "CNAME", domain |-> d, host |-> h, ttl |-> t] :
                     d \in RecDomains, h \in RecDomains, t \in Ttls }
RecordsMX == { [type |-> "MX", domain |-> d, priority |-> p, host |-> h, ttl |-> t] :
                  d \in RecDomains, p \in U16s, h \in RecDomains, t \in Ttls }
RecordsSOA == { [type |-> "SOA", domain |-> d, m_name |-> m, r_name |-> <<97, 46, 122>>,
                 serial |-> s, refresh |-> <<0, 7200>>, retry |-> <<0, 600>>,
                 expire |-> e, minimum |-> <<0, 60>>, ttl |-> t] :
                   d \in RecDomains, m \in RecDomains, s \in U32s, e \in U32s,
                   t \in Ttls }

Records ==
    RecordsA \cup RecordsAAAA \cup RecordsNS \cup RecordsCNAME \cup RecordsMX
        \cup RecordsSOA

InitRecord ==
    /\ cin \in Records
    /\ cwire = <<>>
    /\ cret = 0
    /\ cout = NoValue
    /\ csent = <<>>
    /\ cpc = "start"
    /\ NameIdle /\ ResolverIdle /\ ServerIdle

RecordWrite ==
    /\ cpc = "start"
    /\ LET w == DnsRecord_write(cin)
       IN  /\ cwire' = w.bytes
           /\ cret' = w.size
    /\ cpc' = "written"
    /\ UNCHANGED <<cin, cout, csent>>
    /\ UNCHANGED notCodecVars

RecordRead ==
    /\ cpc = "written"
    /\ cout' = DnsRecord_read(cwire, 0)
    /\ cpc' = "read"
    /\ UNCHANGED <<cin, cwire, cret, csent>>
    /\ UNCHANGED notCodecVars

NextRecord == RecordWrite \/ RecordRead

SpecRecord == InitRecord /\ [][NextRecord]_vars

\* the layout the claim gives a written record: name, type, class 1, ttl,
\* and an rdlength equal to the number of octets after it
C8_Layout(rec, wire) ==
    LET n == Len(write_name(rec.domain).bytes)
    IN  /\ Len(wire) >= n + 10
        /\ SubSeq(wire, 1, n) = write_name(rec.domain).bytes
        /\ read_u16(wire, n).val = QueryType_to_num(QT(rec.type))
        /\ read_u16(wire, n + 2).val = 1
        /\ read_u32(wire, n + 4).val = rec.ttl
        /\ read_u16(wire, n + 8).val = Len(wire) - (n + 10)

\* C8: for every record of variant A, AAAA, NS, CNAME, MX or SOA, write
\* emits name, type, class 1, ttl, an rdlength equal to the number of rdata
\* octets that follow, then the rdata; read over those octets returns the
\* record and consumes exactly the octets written.
C8_RecordRoundTrip ==
    /\ cpc \in {"written", "read"} => C8_Layout(cin, cwire)
    /\ cpc = "read" => (cout.ok /\ cout.val = cin /\ cout.pos = Len(cwire))

----------------------------------------------------------------------------
(* Packet harness: DnsPacket::write of a packet, the datagram that         *)
(* handle_request cuts from its buffer, and DnsPacket::from_buffer.        *)

MaxAnswers == 2

PoolDomain == <<97, 46, 122>>

PoolTtl == <<0, 60>>

\* one record of every variant
PacketRecs ==
    { [type |-> "A", domain |-> PoolDomain, addr |-> <<93, 184, 216, 34>>, ttl |-> PoolTtl],
      [type |-> "AAAA", domain |-> PoolDomain,
       addr |-> <<8193, 3512, 0, 0, 0, 0, 0, 1>>, ttl |-> PoolTtl],
      [type |-> "NS", domain |-> <<122>>, host |-> PoolDomain, ttl |-> PoolTtl],
      [type |-> "CNAME", domain |-> PoolDomain, host |-> <<98, 46, 122>>, ttl |-> PoolTtl],
      [type |-> "MX", domain |-> <<122>>, priority |-> 10, host |-> PoolDomain,
       ttl |-> PoolTtl],
      [type |-> "SOA", domain |-> <<122>>, m_name |-> PoolDomain,
       r_name |-> <<98, 46, 122>>, serial |-> <<0, 1>>, refresh |-> <<0, 7200>>,
       retry |-> <<0, 600>>, expire |-> <<1, 20864>>, minimum |-> <<0, 60>>,
       ttl |-> PoolTtl],
      [type |-> "UNKNOWN", domain |-> PoolDomain, qtype |-> 16, data_len |-> 3,
       ttl |-> PoolTtl] }

PacketQuestions == { [name |-> PoolDomain, qtype |-> QT("A"), qclass |-> 1] }

SeqsUpTo(S, n) == UNION { [1..k -> S] : k \in 0..n }

\* the counts a packet may hold before write recomputes them
StaleCounts == {0, 7}

Packets ==
    { [header |-> [DnsHeader_new EXCEPT !.id = 4660, !.qr = TRUE,
                                        !.qd_count = c, !.an_count = c,
                                        !.ns_count = c, !.ar_count = c],
       questions |-> qs, answers |-> an, authorities |-> ns, resources |-> ar] :
         c \in StaleCounts,
         qs \in SeqsUpTo(PacketQuestions, 1),
         an \in SeqsUpTo(PacketRecs, MaxAnswers),
         ns \in SeqsUpTo({ r \in PacketRecs : r.type \in {"NS", "SOA", "UNKNOWN"} }, 1),
         ar \in SeqsUpTo({ r \in PacketRecs : r.type \in {"A", "MX", "UNKNOWN"} }, 1) }

\* handle_request 149-156: the packet is written over a buffer of 4096
\* zero octets, and the datagram is the first `len` octets of the buffer
reply_buffer_len == 4096

reply_datagram(bytes, len) ==
    [i \in 1..Min(len, reply_buffer_len) |-> IF i <= Len(bytes) THEN bytes[i] ELSE 0]

InitPacket ==
    /\ cin \in Packets
    /\ cwire = <<>>
    /\ cret = 0
    /\ cout = NoValue
    /\ csent = <<>>
    /\ cpc = "start"
    /\ NameIdle /\ ResolverIdle /\ ServerIdle

PacketWrite ==
    /\ cpc = "start"
    /\ LET w == DnsPacket_write(cin)
       IN  /\ cwire' = w.bytes
           /\ cret' = w.size
           /\ cin' = w.packet
    /\ cpc' = "written"
    /\ UNCHANGED <<cout, csent>>
    /\ UNCHANGED notCodecVars

PacketSend ==
    /\ cpc = "written"
    /\ csent' = reply_datagram(cwire, cret)
    /\ cpc' = "sent"
    /\ UNCHANGED <<cin, cwire, cret, cout>>
    /\ UNCHANGED notCodecVars

PacketRead ==
    /\ cpc = "sent"
    /\ cout' = DnsPacket_from_buffer(cwire)
    /\ cpc' = "read"
    /\ UNCHANGED <<cin, cwire, cret, csent>>
    /\ UNCHANGED notCodecVars

NextPacket == PacketWrite \/ PacketSend \/ PacketRead

SpecPacket == InitPacket /\ [][NextPacket]_vars

\* C9: after DnsPacket::write, each of the four count fields on the wire
\* equals the length of its section, and from_buffer over the output yields
\* sections of the same lengths.
C9_CountsMatchSections ==
    /\ cpc \in {"written", "sent", "read"} =>
          /\ read_u16(cwire, 4).val = Len(cin.questions)
          /\ read_u16(cwire, 6).val = Len(cin.answers)
          /\ read_u16(cwire, 8).val = Len(cin.authorities)
          /\ read_u16(cwire, 10).val = Len(cin.resources)
    /\ cpc = "read" =>
          /\ cout.ok
          /\ Len(cout.val.questions) = Len(cin.questions)
          /\ Len(cout.val.answers) = Len(cin.answers)
          /\ Len(cout.val.authorities) = Len(cin.authorities)
          /\ Len(cout.val.resources) = Len(cin.resources)

\* C10: the value DnsPacket::write returns is the number of octets it
\* wrote, so the datagram cut to that length is exactly the serialized
\* packet.
C10_ReturnedLengthIsWritten ==
    /\ cpc \in {"written", "sent", "read"} => cret = Len(cwire)
    /\ cpc \in {"sent", "read"} => csent = cwire

----------------------------------------------------------------------------
(* DnsPacket's queries over a parsed response (dns.rs 569-627).            *)

\* an Option: Some(v) or Absent
Some(v) == [some |-> TRUE, val |-> v]
Absent == [some |-> FALSE]

\* the least element of a non-empty set of naturals
Least(S) == CHOOSE i \in S : \A j \in S : i <= j

\* str::ends_with, on sequences of code points
ends_with(s, suffix) ==
    /\ Len(suffix) <= Len(s)
    /\ SubSeq(s, Len(s) - Len(suffix) + 1, Len(s)) = suffix

have_a(p) == \E i \in 1..Len(p.answers) : p.answers[i].type = "A"

get_first_a(p) ==
    With({ i \in 1..Len(p.answers) : p.answers[i].type = "A" }, LAMBDA S :
        IF S = {} THEN Absent ELSE Some(p.answers[Least(S)].addr))

\* a get_first_cname that takes the last CNAME record of the answers
get_last_cname(p) ==
    With({ i \in 1..Len(p.answers) : p.answers[i].type = "CNAME" }, LAMBDA S :
        IF S = {} THEN Absent
        ELSE Some(p.answers[CHOOSE i \in S : \A j \in S : j <= i].host))

get_first_cname(p) ==
    With({ i \in 1..Len(p.answers) : p.answers[i].type = "CNAME" }, LAMBDA S :
        IF S = {} THEN Absent ELSE Some(p.answers[Least(S)].host))

\* a get_ns that keeps every NS record of the authority section
get_ns_any_zone(p, qname) ==
    SelectSeq(p.authorities, LAMBDA r : r.type = "NS")

\* the NS records of the authority section whose domain ends qname, in order
get_ns(p, qname) ==
    SelectSeq(p.authorities,
              LAMBDA r : r.type = "NS" /\ ends_with(qname, r.domain))

\* the A records of the additional section for host, in order
glue_for(p, host) ==
    SelectSeq(p.resources, LAMBDA r : r.type = "A" /\ r.domain = host)

\* a get_resolved_ns that takes the first A record of the additional
\* section whatever its domain
get_resolved_ns_any_glue(p, qname) ==
    With(SelectSeq(p.resources, LAMBDA r : r.type = "A"), LAMBDA rs :
        IF Len(rs) = 0 THEN Absent ELSE Some(rs[1].addr))

\* the first address of the flat_map: name servers in order, and for each
\* the matching A records of the additional section in order
get_resolved_ns(p, qname) ==
    With(get_ns(p, qname), LAMBDA ns :
    With({ i \in 1..Len(ns) : Len(glue_for(p, ns[i].host)) > 0 }, LAMBDA S :
        IF S = {} THEN Absent
        ELSE Some(glue_for(p, ns[Least(S)].host)[1].addr)))

get_unresolved_ns(p, qname) ==
    With(get_ns(p, qname), LAMBDA ns :
        IF Len(ns) = 0 THEN Absent ELSE Some(ns[1].host))

----------------------------------------------------------------------------
(* QueryType harness: to_num then from_num of a QueryType, and from_num    *)
(* then to_num of a u16.                                                    *)

\* the largest u16
u16_max == 65535

\* every value of the enum QueryType
QueryTypes ==
    { QT(t) : t \in {"A", "NS", "CNAME", "SOA", "MX", "AAAA"} }
        \cup { UNKNOWN(n) : n \in 0..u16_max }

InitQueryType ==
    /\ \/ cpc = "query_type" /\ cin \in QueryTypes
       \/ cpc = "num" /\ cin \in 0..u16_max
    /\ cwire = <<>>
    /\ cret = 0
    /\ cout = NoValue
    /\ csent = <<>>
    /\ NameIdle /\ ResolverIdle /\ ServerIdle

\* x.to_num()
QueryTypeToNum ==
    /\ cpc = "query_type"
    /\ cret' = QueryType_to_num(cin)
    /\ cpc' = "query_type_num"
    /\ UNCHANGED <<cin, cwire, cout, csent>>
    /\ UNCHANGED notCodecVars

\* QueryType::from_num(x.to_num())
QueryTypeBack ==
    /\ cpc = "query_type_num"
    /\ cout' = QueryType_from_num(cret)
    /\ cpc' = "query_type_back"
    /\ UNCHANGED <<cin, cwire, cret, csent>>
    /\ UNCHANGED notCodecVars

\* QueryType::from_num(n)
NumFromNum ==
    /\ cpc = "num"
    /\ cout' = QueryType_from_num(cin)
    /\ cpc' = "num_query_type"
    /\ UNCHANGED <<cin, cwire, cret, csent>>
    /\ UNCHANGED notCodecVars

\* QueryType::from_num(n).to_num()
NumBack ==
    /\ cpc = "num_query_type"
    /\ cret' = QueryType_to_num(cout)
    /\ cpc' = "num_back"
    /\ UNCHANGED <<cin, cwire, cout, csent>>
    /\ UNCHANGED notCodecVars

NextQueryType == QueryTypeToNum \/ QueryTypeBack \/ NumFromNum \/ NumBack

SpecQueryType == InitQueryType /\ [][NextQueryType]_vars

\* the numbers that from_num maps to a named variant
NamedNums == {1, 2, 5, 6, 15, 28}

\* C16 as stated: from_num(to_num(x)) = x for every QueryType x, every
\* UNKNOWN(n) included, and to_num(from_num(n)) = n for every u16 n.
C16_RoundTrip ==
    /\ cpc = "query_type_back" => cout = cin
    /\ cpc = "num_back" => cret = cin

\* C16 amended: from_num(to_num(x)) = x for every QueryType x other than
\* UNKNOWN(n) with n the number of a named variant, and
\* to_num(from_num(n)) = n for every u16 n.
C16_RoundTripCanonical ==
    /\ (cpc = "query_type_back" /\ ~(cin.tag = "UNKNOWN" /\ cin.n \in NamedNums))
            => cout = cin
    /\ cpc = "num_back" => cret = cin

\* UNKNOWN(65535) went to its number and came back
C16_Witness ==
    /\ cpc = "query_type_back"
    /\ cin = UNKNOWN(u16_max)
    /\ cret = u16_max
    /\ cout = cin

----------------------------------------------------------------------------
(* lookup and recursive_lookup (main.rs 14-104).                           *)

\* "198.41.0.4", the root server every call starts with
root_server == <<198, 41, 0, 4>>

recv_buffer_len == 512

\* recv_from into vec![0; n]: the datagram over n zero octets, cut at n
recv_from(datagram, n) ==
    [i \in 1..n |-> IF i <= Len(datagram) THEN datagram[i] ELSE 0]

\* lookup's request: id 6666, rd set, one question of class 1
lookup_request(qname, qtype) ==
    [DnsPacket_new EXCEPT
        !.header = [DnsHeader_new EXCEPT !.id = 6666, !.qd_count = 1, !.rd = TRUE],
        !.questions = <<[name |-> qname, qtype |-> qtype, qclass |-> 1]>>]

\* what lookup returns once a datagram has come back: the parse of the 512
\* octet buffer; flags_b keeps the second flags octet as it was on the wire
lookup_parse(datagram) ==
    With(recv_from(datagram, recv_buffer_len), LAMBDA rv :
    With(DnsPacket_from_buffer(rv), LAMBDA packet :
        IF packet.ok THEN [ok |-> TRUE, val |-> packet.val, flags_b |-> rv[4]]
        ELSE [ok |-> FALSE, err |-> packet.err]))

\* recv_from returned an error: nothing came back within the read timeout
TimedOut == [ok |-> FALSE, err |-> "timeout"]

\* the branch one iteration of the loop takes on a response, in the order
\* of the tests at lines 27-56
recursive_lookup_branch(p, name) ==
    IF Len(p.answers) # 0 /\ p.header.rcode = "NOERROR" /\ get_first_cname(p).some
        THEN "cname"
    ELSE IF Len(p.answers) # 0 /\ p.header.rcode = "NOERROR" /\ have_a(p)
        THEN "answer"
    ELSE IF p.header.rcode = "NXDOMAIN" THEN "nxdomain"
    ELSE IF get_resolved_ns(p, name).some THEN "resolved_ns"
    ELSE IF get_unresolved_ns(p, name).some THEN "unresolved_ns"
    ELSE "no_ns"

Front(s) == SubSeq(s, 1, Len(s) - 1)

\* A call returns Ok(packet) to the calls waiting at line 59, innermost
\* last: the caller takes the first A address as its next ns and loops, or
\* returns the response it holds to its own caller.
RECURSIVE recursive_lookup_return(_, _)
recursive_lookup_return(callers, packet) ==
    IF Len(callers) = 0
    THEN [frames |-> <<>>, result |-> [ok |-> TRUE, val |-> packet]]
    ELSE With(callers[Len(callers)], LAMBDA caller :
         With(get_first_a(packet), LAMBDA new_ns :
            IF new_ns.some
            THEN [frames |-> Append(Front(callers),
                                    [caller EXCEPT !.ns = new_ns.val,
                                                   !.response = NoValue]),
                  result |-> NoValue]
            ELSE recursive_lookup_return(Front(callers), caller.response)))

\* a call as recursive_lookup begins it
recursive_lookup_begin(qname, qtype) ==
    [name |-> qname, qtype |-> qtype, ns |-> root_server, response |-> NoValue]

----------------------------------------------------------------------------
(* The resolver: one recursive_lookup call against upstream servers that   *)
(* may answer anything.                                                    *)

\* calls on the stack at most
MaxDepth == 2

a_z == <<97, 46, 122>>
b_z == <<98, 46, 122>>
n_z == <<110, 46, 122>>
zone_z == <<122>>

ResolverNames == {a_z, b_z}

answer_addr == <<10, 0, 0, 1>>
glue_addr == <<10, 0, 0, 2>>

m_y == <<109, 46, 121>>
zone_y == <<121>>
other_glue_addr == <<10, 0, 0, 3>>

A_a_z == [type |-> "A", domain |-> a_z, addr |-> answer_addr, ttl |-> PoolTtl]
CNAME_a_b == [type |-> "CNAME", domain |-> a_z, host |-> b_z, ttl |-> PoolTtl]
CNAME_b_a == [type |-> "CNAME", domain |-> b_z, host |-> a_z, ttl |-> PoolTtl]
CNAME_a_n == [type |-> "CNAME", domain |-> a_z, host |-> n_z, ttl |-> PoolTtl]
NS_z == [type |-> "NS", domain |-> zone_z, host |-> n_z, ttl |-> PoolTtl]
NS_y == [type |-> "NS", domain |-> zone_y, host |-> m_y, ttl |-> PoolTtl]
glue_n_z == [type |-> "A", domain |-> n_z, addr |-> glue_addr, ttl |-> PoolTtl]
glue_m_y == [type |-> "A", domain |-> m_y, addr |-> other_glue_addr, ttl |-> PoolTtl]

\* the responses an upstream server may send, as <<ra, rcode, answers,
\* authorities, resources>>: empty, answers, referrals with and without
\* glue and with a name server of another zone, and NXDOMAIN responses
UpstreamShapes ==
    { <<FALSE, "NOERROR", <<>>, <<>>, <<>>>>,
      <<FALSE, "NOERROR", <<A_a_z>>, <<>>, <<>>>>,
      <<FALSE, "NOERROR", <<A_a_z>>, <<NS_z>>, <<glue_n_z>>>>,
      <<FALSE, "NOERROR", <<CNAME_a_b>>, <<>>, <<>>>>,
      <<FALSE, "NOERROR", <<CNAME_b_a, CNAME_a_n>>, <<NS_z>>, <<>>>>,
      <<FALSE, "NOERROR", <<>>, <<NS_z>>, <<>>>>,
      <<FALSE, "NOERROR", <<>>, <<NS_z>>, <<glue_m_y, glue_n_z>>>>,
      <<FALSE, "NOERROR", <<>>, <<NS_y>>, <<glue_m_y>>>>,
      <<FALSE, "NOERROR", <<>>, <<NS_y, NS_z>>, <<glue_m_y>>>>,
      <<FALSE, "NOERROR", <<>>, <<NS_y, NS_z>>, <<glue_m_y, glue_n_z>>>>,
      <<FALSE, "NXDOMAIN", <<>>, <<>>, <<>>>>,
      <<FALSE, "NXDOMAIN", <<CNAME_a_b>>, <<NS_z>>, <<glue_n_z>>>>,
      <<TRUE, "NXDOMAIN", <<CNAME_a_b>>, <<>>, <<>>>>,
      <<TRUE, "NXDOMAIN", <<>>, <<NS_z>>, <<>>>> }

UpstreamPackets ==
    { [header |-> [DnsHeader_new EXCEPT !.id = 6666, !.qr = TRUE,
                                        !.ra = s[1], !.rcode = s[2]],
       questions |-> <<>>, answers |-> s[3], authorities |-> s[4],
       resources |-> s[5]] : s \in UpstreamShapes }

\* a response whose one answer is named by a pointer to itself
NameLoopResponse ==
    DnsHeader_write([DnsHeader_new EXCEPT !.id = 6666, !.qr = TRUE,
                                          !.an_count = 1]).bytes \o <<192, 12>>

UpstreamDatagrams ==
    { DnsPacket_write(p).bytes : p \in UpstreamPackets } \cup {NameLoopResponse}

\* what a lookup call may return
lookup_results == { lookup_parse(d) : d \in UpstreamDatagrams } \cup {TimedOut}

InitResolver ==
    /\ frames \in { <<recursive_lookup_begin(n, QT("A"))>> : n \in ResolverNames }
    /\ query = NoValue
    /\ response = NoValue
    /\ returned = NoValue
    /\ result = NoValue
    /\ lpc = "running"
    /\ CodecIdle /\ NameIdle /\ ServerIdle

\* lines 22-25: the running call sends its query and lookup returns r
Lookup(r) ==
    /\ lpc = "running"
    /\ query' = [qname |-> frames[Len(frames)].name,
                 qtype |-> frames[Len(frames)].qtype,
                 server |-> <<frames[Len(frames)].ns, 53>>]
    /\ response' = r
    /\ UNCHANGED notResolverVars

\* the running call returns Ok(r.val)
Return(r) ==
    /\ LET u == recursive_lookup_return(Front(frames), r.val)
       IN  /\ frames' = u.frames
           /\ result' = u.result
           /\ lpc' = IF Len(u.frames) = 0 THEN "done" ELSE "running"
    /\ returned' = [ok |-> TRUE, val |-> r.val]

Branch(r) == recursive_lookup_branch(r.val, frames[Len(frames)].name)

\* line 25: lookup fails and `?` returns the error from every call
LookupFails ==
    \E r \in lookup_results :
        /\ ~r.ok
        /\ Lookup(r)
        /\ frames' = <<>>
        /\ result' = r
        /\ returned' = r
        /\ lpc' = "done"

\* lines 30-33
FollowCname ==
    \E r \in lookup_results :
        /\ r.ok
        /\ Lookup(r)
        /\ Branch(r) = "cname"
        /\ frames' = [frames EXCEPT ![Len(frames)].name = get_first_cname(r.val).val]
        /\ returned' = NoValue
        /\ UNCHANGED <<result, lpc>>

\* lines 35-37
ReturnAnswer ==
    \E r \in lookup_results :
        /\ r.ok
        /\ Lookup(r)
        /\ Branch(r) = "answer"
        /\ Return(r)

\* lines 41-43
ReturnNxdomain ==
    \E r \in lookup_results :
        /\ r.ok
        /\ Lookup(r)
        /\ Branch(r) = "nxdomain"
        /\ Return(r)

\* lines 47-50
UseResolvedNs ==
    \E r \in lookup_results :
        /\ r.ok
        /\ Lookup(r)
        /\ Branch(r) = "resolved_ns"
        /\ frames' = [frames EXCEPT ![Len(frames)].ns =
                          get_resolved_ns(r.val, frames[Len(frames)].name).val]
        /\ returned' = NoValue
        /\ UNCHANGED <<result, lpc>>

\* lines 53-56, None
ReturnNoNs ==
    \E r \in lookup_results :
        /\ r.ok
        /\ Lookup(r)
        /\ Branch(r) = "no_ns"
        /\ Return(r)

\* lines 53-59: the call keeps the response and calls recursive_lookup for
\* the name server's host
ResolveNs ==
    \E r \in lookup_results :
        /\ r.ok
        /\ Len(frames) < MaxDepth
        /\ Lookup(r)
        /\ Branch(r) = "unresolved_ns"
        /\ frames' = Append([frames EXCEPT ![Len(frames)].response = r.val],
                            recursive_lookup_begin(
                                get_unresolved_ns(r.val, frames[Len(frames)].name).val,
                                QT("A")))
        /\ returned' = NoValue
        /\ UNCHANGED <<result, lpc>>

NextResolver ==
    \/ LookupFails
    \/ FollowCname
    \/ ReturnAnswer
    \/ ReturnNxdomain
    \/ UseResolvedNs
    \/ ReturnNoNs
    \/ ResolveNs

SpecResolver == InitResolver /\ [][NextResolver]_vars

\* the resolving thread runs on: a call that can take a step takes one
SpecResolverFair == SpecResolver /\ WF_vars(NextResolver)

\* C1: recursive_lookup returns, whatever the upstream servers answer.
C1_LookupTerminates == <>(lpc = "done")

\* C2: a response whose flags octet B carries rcode 3 (NXDOMAIN) in its low
\* four bits is returned at once by the call that received it, whatever the
\* other bits of the octet and whatever the sections hold.
C2_NxdomainReturnsAtOnce ==
    (response.ok /\ response.flags_b % 16 = 3) =>
        returned = [ok |-> TRUE, val |-> response.val]

----------------------------------------------------------------------------
(* What the resolver's steps must do, stated over the response just         *)
(* received (response), the query that fetched it (query) and the calls    *)
(* left on the stack (frames).                                             *)

\* the records of type t in rs, in order
RECURSIVE OfType(_, _)
OfType(rs, t) ==
    IF Len(rs) = 0 THEN <<>>
    ELSE IF Head(rs).type = t THEN <<Head(rs)>> \o OfType(Tail(rs), t)
    ELSE OfType(Tail(rs), t)

\* suffix is a tail of s
IsTail(suffix, s) ==
    \E k \in 0..Len(s) : suffix = [i \in 1..(Len(s) - k) |-> s[k + i]]

\* the authority NS records whose domain is a tail of name, in order
RECURSIVE MatchingNs(_, _)
MatchingNs(rs, name) ==
    IF Len(rs) = 0 THEN <<>>
    ELSE IF Head(rs).type = "NS" /\ IsTail(Head(rs).domain, name)
         THEN <<Head(rs)>> \o MatchingNs(Tail(rs), name)
         ELSE MatchingNs(Tail(rs), name)

\* the addresses of the additional A records named as a matching NS host
GlueAddrs(p, name) ==
    { OfType(p.resources, "A")[j].addr : j \in
        { j \in 1..Len(OfType(p.resources, "A")) :
            \E i \in 1..Len(MatchingNs(p.authorities, name)) :
                MatchingNs(p.authorities, name)[i].host
                    = OfType(p.resources, "A")[j].domain } }

\* the response is taken as an answer: the CNAME is followed or it is
\* returned
IsAnswer(p) ==
    /\ Len(p.answers) > 0
    /\ p.header.rcode = "NOERROR"
    /\ Len(OfType(p.answers, "A")) + Len(OfType(p.answers, "CNAME")) > 0

\* the response is a referral for name
IsReferral(p, name) ==
    /\ ~IsAnswer(p)
    /\ p.header.rcode # "NXDOMAIN"
    /\ Len(MatchingNs(p.authorities, name)) > 0

\* the state just after a referral was received
C11_AfterReferral ==
    (response.ok /\ IsReferral(response.val, query.qname)) =>
        IF GlueAddrs(response.val, query.qname) # {}
        THEN /\ lpc = "running"
             /\ returned = NoValue
             /\ Len(frames) >= 1
             /\ frames[Len(frames)].name = query.qname
             /\ frames[Len(frames)].qtype = query.qtype
             /\ frames[Len(frames)].ns \in GlueAddrs(response.val, query.qname)
        ELSE /\ lpc = "running"
             /\ returned = NoValue
             /\ Len(frames) >= 2
             /\ frames[Len(frames)] =
                    [name |-> MatchingNs(response.val.authorities, query.qname)[1].host,
                     qtype |-> QT("A"), ns |-> root_server, response |-> NoValue]
             /\ frames[Len(frames) - 1].name = query.qname
             /\ frames[Len(frames) - 1].ns = query.server[1]
             /\ frames[Len(frames) - 1].response = response.val

\* the step in which the call made for a name server's host returns Ok
C11_AfterSubcall ==
    (Len(frames) >= 2 /\ returned'.ok) =>
        IF Len(OfType(returned'.val.answers, "A")) > 0
        THEN /\ lpc' = "running"
             /\ Len(frames') = Len(frames) - 1
             /\ frames'[Len(frames')].name = frames[Len(frames) - 1].name
             /\ frames'[Len(frames')].qtype = frames[Len(frames) - 1].qtype
             /\ frames'[Len(frames')].ns = OfType(returned'.val.answers, "A")[1].addr
        ELSE /\ Len(frames') <= Len(frames) - 2
             /\ Len(frames) = 2 =>
                   /\ lpc' = "done"
                   /\ result' = [ok |-> TRUE, val |-> frames[1].response]

\* C11: on a referral the next query goes for the same name to the address
\* of a glue A record of a matching name server; without glue the resolver
\* calls recursive_lookup(host, A) for the first matching name server, takes
\* the first A address of its result as the next ns, and returns the
\* referral unchanged when that result has no A record.
C11_NextServerSelection == []C11_AfterReferral /\ [][C11_AfterSubcall]_vars

\* a call made for a name server's host has returned an A record and the
\* caller goes on with its address
C11_Witness ==
    /\ lpc = "running"
    /\ returned.ok
    /\ Len(frames) = 1
    /\ frames[1].name \in ResolverNames
    /\ frames[1].ns = answer_addr

\* the response reaches the name-server tests of lines 47-56
ReachesNsStep(p) == ~IsAnswer(p) /\ p.header.rcode # "NXDOMAIN"

\* authority record i of p is an NS record whose domain is a tail of name
NsMatches(p, i, name) ==
    /\ p.authorities[i].type = "NS"
    /\ IsTail(p.authorities[i].domain, name)

\* the call that received p for the query q goes on through authority
\* record i: with a glue address of its host, or with a call for its host
SelectedThrough(p, i, q) ==
    \/ /\ frames[Len(frames)].name = q.qname
       /\ \E j \in 1..Len(p.resources) :
            /\ p.resources[j].type = "A"
            /\ p.resources[j].domain = p.authorities[i].host
            /\ p.resources[j].addr = frames[Len(frames)].ns
    \/ /\ Len(frames) >= 2
       /\ frames[Len(frames) - 1].name = q.qname
       /\ frames[Len(frames)].name = p.authorities[i].host
       /\ frames[Len(frames)].ns = root_server
       /\ frames[Len(frames)].response = NoValue

\* C12: a name server is selected, for its glue address or as the host to
\* resolve, only through an authority NS record whose domain is a suffix of
\* the name being resolved; when no authority NS domain is a suffix of the
\* name the call returns the response and makes no further query.
C12_SuffixMatch ==
    (response.ok /\ ReachesNsStep(response.val)) =>
        IF \E i \in 1..Len(response.val.authorities) :
               NsMatches(response.val, i, query.qname)
        THEN /\ lpc = "running"
             /\ returned = NoValue
             /\ \E i \in 1..Len(response.val.authorities) :
                    /\ NsMatches(response.val, i, query.qname)
                    /\ SelectedThrough(response.val, i, query)
        ELSE returned = [ok |-> TRUE, val |-> response.val]

\* a referral names a server of another zone first, with glue, and a
\* server of the name's zone without glue: the call goes for the latter
C12_Witness ==
    /\ response.ok
    /\ Len(response.val.authorities) = 2
    /\ ~NsMatches(response.val, 1, query.qname)
    /\ NsMatches(response.val, 2, query.qname)
    /\ Len(response.val.resources) = 1
    /\ response.val.resources[1].domain = response.val.authorities[1].host
    /\ Len(frames) = 2
    /\ frames[2].name = response.val.authorities[2].host

\* the response just received has rcode NOERROR on the wire, a CNAME
\* record and no A record in its answer section
CnameOnly ==
    /\ response.ok
    /\ response.flags_b % 16 = 0
    /\ Len(OfType(response.val.answers, "CNAME")) > 0
    /\ Len(OfType(response.val.answers, "A")) = 0

\* the query sent next, after a response with a CNAME and no A record
C13_NextQuery ==
    CnameOnly =>
        /\ query'.qname = OfType(response.val.answers, "CNAME")[1].host
        /\ query'.qtype = query.qtype
        /\ query'.server = query.server

\* C13: after a NOERROR response whose answers hold a CNAME and no A
\* record, the next upstream query is for the host of the first CNAME in
\* answer order, with the same query type, to the same ns address.
C13_CnameFollow == [][C13_NextQuery]_vars

\* b.z was answered with two CNAME records and the call goes on with the
\* host of the first
C13_Witness ==
    /\ CnameOnly
    /\ Len(OfType(response.val.answers, "CNAME")) = 2
    /\ query.qname = b_z
    /\ lpc = "running"
    /\ frames[Len(frames)].name = a_z
    /\ frames[Len(frames)].ns = query.server[1]

----------------------------------------------------------------------------
(* handle_request and DnsUdpServer::run (main.rs 107-260).                 *)

Last(s) == s[Len(s)]

\* handle_request: the reply for request, given what recursive_lookup
\* returned for the question popped from the back of request.questions
handle_request(src, request, looked_up) ==
    LET base == [DnsPacket_new EXCEPT
                    !.header = [DnsHeader_new EXCEPT !.id = request.header.id,
                                                     !.rd = TRUE, !.ra = TRUE,
                                                     !.qr = TRUE]]
        packet == IF Len(request.questions) = 0
                  THEN [base EXCEPT !.header.rcode = "FORMERR"]
                  ELSE IF looked_up.ok
                  THEN [base EXCEPT !.questions = <<Last(request.questions)>>,
                                    !.header.rcode = looked_up.val.header.rcode,
                                    !.answers = looked_up.val.answers,
                                    !.authorities = looked_up.val.authorities,
                                    !.resources = looked_up.val.resources]
                  ELSE [base EXCEPT !.header.rcode = "SERVFAIL"]
        w == DnsPacket_write(packet)
    IN  [dst |-> src, data |-> reply_datagram(w.bytes, w.size)]

\* handler threads spawned (DnsUdpServer::new(5) in main)
thread_count == 2

\* datagrams the socket delivers in one run
MaxDatagrams == 2

Threads == 1..thread_count

Clients == {"c1", "c2"}

\* a query with the questions a.z A and b.z A, in this order
two_questions ==
    [lookup_request(a_z, QT("A")) EXCEPT
        !.header.id = 4664,
        !.questions = <<[name |-> a_z, qtype |-> QT("A"), qclass |-> 1],
                        [name |-> b_z, qtype |-> QT("A"), qclass |-> 1]>>]

\* a well-formed query, a query with two questions, a header with no
\* question, a question named by a pointer to itself, and a question named
\* by a pointer to offset 512, past the end of the buffer
ClientDatagrams ==
    { DnsPacket_write([lookup_request(a_z, QT("A")) EXCEPT !.header.id = 4660]).bytes,
      DnsPacket_write(two_questions).bytes,
      DnsHeader_write([DnsHeader_new EXCEPT !.id = 4661]).bytes,
      DnsHeader_write([DnsHeader_new EXCEPT !.id = 4662, !.qd_count = 1]).bytes
          \o <<192, 12>>,
      DnsHeader_write([DnsHeader_new EXCEPT !.id = 4663, !.qd_count = 1]).bytes
          \o <<194, 0>> }

\* the SOA record of zone z, as a negative answer carries it
SOA_z ==
    [type |-> "SOA", domain |-> zone_z, m_name |-> n_z, r_name |-> a_z,
     serial |-> <<0, 1>>, refresh |-> <<0, 7200>>, retry |-> <<0, 600>>,
     expire |-> <<1, 20864>>, minimum |-> <<0, 60>>, ttl |-> PoolTtl]

\* what recursive_lookup may return to handle_request
LookedUp ==
    { TimedOut,
      [ok |-> TRUE,
       val |-> [DnsPacket_new EXCEPT
                  !.header = [DnsHeader_new EXCEPT !.id = 6666, !.qr = TRUE,
                                                   !.an_count = 1],
                  !.answers = <<[type |-> "A", domain |-> a_z,
                                 addr |-> answer_addr, ttl |-> PoolTtl]>>]],
      [ok |-> TRUE,
       val |-> [DnsPacket_new EXCEPT
                  !.header = [DnsHeader_new EXCEPT !.id = 6666, !.qr = TRUE,
                                                   !.rcode = "NXDOMAIN"]]],
      [ok |-> TRUE,
       val |-> [DnsPacket_new EXCEPT
                  !.header = [DnsHeader_new EXCEPT !.id = 6666, !.qr = TRUE,
                                                   !.rcode = "NXDOMAIN",
                                                   !.ns_count = 1],
                  !.authorities = <<SOA_z>>]] }

Idle == [pc |-> "start", job |-> NoValue]

Init ==
    /\ incoming = "recv"
    /\ handlers = [t \in Threads |-> Idle]
    /\ request_queue = <<>>
    /\ received = <<>>
    /\ replies = <<>>
    /\ CodecIdle /\ NameIdle /\ ResolverIdle

\* lines 232-238 for each datagram: recv_from into 512 zero octets, then
\* from_buffer
Deliveries ==
    { [datagram |-> d,
       parsed |-> DnsPacket_from_buffer(recv_from(d, recv_buffer_len))] :
         d \in ClientDatagrams }

\* the incoming thread receives delivery m from src
Recv(src, m) ==
    /\ incoming = "recv"
    /\ Len(received) < MaxDatagrams
    /\ received' = Append(received, [src |-> src, datagram |-> m.datagram,
                                      ok |-> m.parsed.ok])

\* lines 243-247 when no handler is waiting: notify_one wakes nobody
IncomingEnqueue ==
    \E src \in Clients, m \in Deliveries :
        /\ Recv(src, m)
        /\ m.parsed.ok
        /\ \A t \in Threads : handlers[t].pc # "waiting"
        /\ request_queue' = Append(request_queue,
                                   [src |-> src, request |-> m.parsed.val])
        /\ UNCHANGED <<incoming, handlers, replies>>
        /\ UNCHANGED notServerVars

\* lines 243-247: push_back, and notify_one wakes one waiting handler
IncomingNotify ==
    \E src \in Clients, m \in Deliveries, t \in Threads :
        /\ Recv(src, m)
        /\ m.parsed.ok
        /\ handlers[t].pc = "waiting"
        /\ request_queue' = Append(request_queue,
                                   [src |-> src, request |-> m.parsed.val])
        /\ handlers' = [handlers EXCEPT ![t].pc = "woken"]
        /\ UNCHANGED <<incoming, replies>>
        /\ UNCHANGED notServerVars

\* line 238: from_buffer failed and expect panics the incoming thread
IncomingPanic ==
    \E src \in Clients, m \in Deliveries :
        /\ Recv(src, m)
        /\ ~m.parsed.ok
        /\ incoming' = "panicked"
        /\ UNCHANGED <<handlers, request_queue, replies>>
        /\ UNCHANGED notServerVars

\* lines 203-206: lock, then wait, which releases the lock and blocks
HandlerWait(t) ==
    /\ handlers[t].pc = "start"
    /\ handlers' = [handlers EXCEPT ![t].pc = "waiting"]
    /\ UNCHANGED <<incoming, request_queue, received, replies>>
    /\ UNCHANGED notServerVars

\* Condvar::wait may return without a notify_one
SpuriousWake(t) ==
    /\ handlers[t].pc = "waiting"
    /\ handlers' = [handlers EXCEPT ![t].pc = "woken"]
    /\ UNCHANGED <<incoming, request_queue, received, replies>>
    /\ UNCHANGED notServerVars

\* line 207, Some: wait returned with the lock and pop_front yields a request
HandlerPop(t) ==
    /\ handlers[t].pc = "woken"
    /\ Len(request_queue) > 0
    /\ handlers' = [handlers EXCEPT ![t] = [pc |-> "handling",
                                            job |-> Head(request_queue)]]
    /\ request_queue' = Tail(request_queue)
    /\ UNCHANGED <<incoming, received, replies>>
    /\ UNCHANGED notServerVars

\* lines 207-212, None: the queue is empty and unreachable!() panics
HandlerUnreachable(t) ==
    /\ handlers[t].pc = "woken"
    /\ Len(request_queue) = 0
    /\ handlers' = [handlers EXCEPT ![t].pc = "panicked"]
    /\ UNCHANGED <<incoming, request_queue, received, replies>>
    /\ UNCHANGED notServerVars

\* the question handle_request takes from the request (line 117)
popped_question(request) ==
    IF Len(request.questions) = 0 THEN Absent
    ELSE Some(Last(request.questions))

\* a datagram sent by send_to, kept with the request it answers, the
\* question recursive_lookup was called with and what the call returned
Sent(s, request, looked_up) ==
    [dst |-> s.dst, data |-> s.data, request |-> request,
     asked |-> popped_question(request), looked_up |-> looked_up]

\* handle_request for every job a handler may pop and every outcome of
\* recursive_lookup
Handlings ==
    { [job |-> [src |-> src, request |-> m.parsed.val],
       sent |-> Sent(handle_request(src, m.parsed.val, looked_up),
                     m.parsed.val, looked_up)] :
        src \in Clients, m \in { d \in Deliveries : d.parsed.ok },
        looked_up \in LookedUp }

\* lines 214-220: handle_request sends the reply and the loop starts over
HandlerHandle(t) ==
    /\ handlers[t].pc = "handling"
    /\ \E h \in Handlings :
          /\ h.job = handlers[t].job
          /\ replies' = Append(replies, h.sent)
    /\ handlers' = [handlers EXCEPT ![t] = Idle]
    /\ UNCHANGED <<incoming, request_queue, received>>
    /\ UNCHANGED notServerVars

Next ==
    \/ IncomingEnqueue
    \/ IncomingNotify
    \/ IncomingPanic
    \/ \E t \in Threads : HandlerWait(t)
    \/ \E t \in Threads : SpuriousWake(t)
    \/ \E t \in Threads : HandlerPop(t)
    \/ \E t \in Threads : HandlerUnreachable(t)
    \/ \E t \in Threads : HandlerHandle(t)

Spec == Init /\ [][Next]_vars

----------------------------------------------------------------------------
(* What a reply must look like on the wire, read octet by octet.           *)

\* the 16-bit big-endian integer at octets i, i + 1 of datagram d
wire_u16(d, i) == d[i] * 256 + d[i + 1]

\* the TYPE number of record rec
record_type_num(rec) ==
    IF rec.type = "UNKNOWN" THEN rec.qtype
    ELSE QueryType_to_num(QT(rec.type))

\* question q stands right after the 12 header octets of d
QuestionOnWire(q, d) ==
    With(write_name(q.name).bytes, LAMBDA nm :
        /\ Len(d) >= 12 + Len(nm) + 4
        /\ SubSeq(d, 13, 12 + Len(nm)) = nm
        /\ wire_u16(d, 13 + Len(nm)) = QueryType_to_num(q.qtype)
        /\ wire_u16(d, 15 + Len(nm)) = 1)

\* the octets of d after position pos are exactly the records recs: name,
\* type, class 1, ttl, rdlength and rdlength octets of rdata for each
RECURSIVE RecordsOnWire(_, _, _)
RecordsOnWire(recs, d, pos) ==
    IF Len(recs) = 0 THEN pos = Len(d)
    ELSE With(pos + Len(write_name(Head(recs).domain).bytes), LAMBDA at :
            /\ Len(d) >= at + 10
            /\ SubSeq(d, pos + 1, at) = write_name(Head(recs).domain).bytes
            /\ wire_u16(d, at + 1) = record_type_num(Head(recs))
            /\ wire_u16(d, at + 3) = 1
            /\ <<wire_u16(d, at + 5), wire_u16(d, at + 7)>> = Head(recs).ttl
            /\ Len(d) >= at + 10 + wire_u16(d, at + 9)
            /\ Head(recs).type = "A" =>
                  SubSeq(d, at + 11, at + 10 + wire_u16(d, at + 9)) = Head(recs).addr
            /\ RecordsOnWire(Tail(recs), d, at + 10 + wire_u16(d, at + 9)))

\* reply r is the one reply assembly must give for its request and for
\* what recursive_lookup returned
ReplyAssembled(r) ==
    /\ Len(r.data) >= 12
    /\ wire_u16(r.data, 1) = r.request.header.id
    /\ r.data[3] \div 128 = 1
    /\ r.data[3] % 2 = 1
    /\ r.data[4] \div 128 = 1
    /\ IF Len(r.request.questions) = 0
       THEN /\ r.data[4] % 16 = ResultCode_to_num("FORMERR")
            /\ \A c \in {5, 7, 9, 11} : wire_u16(r.data, c) = 0
            /\ Len(r.data) = 12
       ELSE IF ~r.looked_up.ok
       THEN /\ r.data[4] % 16 = ResultCode_to_num("SERVFAIL")
            /\ \A c \in {7, 9, 11} : wire_u16(r.data, c) = 0
            /\ wire_u16(r.data, 5) = 0 => Len(r.data) = 12
       ELSE /\ r.data[4] % 16 = ResultCode_to_num(r.looked_up.val.header.rcode)
            /\ wire_u16(r.data, 5) = 1
            /\ wire_u16(r.data, 7) = Len(r.looked_up.val.answers)
            /\ wire_u16(r.data, 9) = Len(r.looked_up.val.authorities)
            /\ wire_u16(r.data, 11) = Len(r.looked_up.val.resources)
            /\ \E k \in 1..Len(r.request.questions) :
                  /\ QuestionOnWire(r.request.questions[k], r.data)
                  /\ RecordsOnWire(r.looked_up.val.answers
                                     \o r.looked_up.val.authorities
                                     \o r.looked_up.val.resources,
                                   r.data,
                                   12 + Len(write_name(r.request.questions[k].name).bytes) + 4)

\* C14: every reply has the request's id and qr = rd = ra = 1; it has rcode
\* FORMERR and nothing after the header when the request has no question,
\* rcode SERVFAIL and no records when recursive_lookup returned an error,
\* and otherwise the rcode and the answer, authority and additional records
\* of the resolver's packet after the question of the request.
C14_ReplyAssembly == \A i \in 1..Len(replies) : ReplyAssembled(replies[i])

\* C15: for a request with one or more questions, recursive_lookup is
\* called for the first question in wire order, and a reply that carries a
\* question carries exactly that one.
C15_FirstQuestionResolved ==
    \A i \in 1..Len(replies) :
        Len(replies[i].request.questions) >= 1 =>
            /\ replies[i].asked = Some(replies[i].request.questions[1])
            /\ replies[i].looked_up.ok =>
                  /\ wire_u16(replies[i].data, 5) = 1
                  /\ QuestionOnWire(replies[i].request.questions[1],
                                    replies[i].data)

\* the rcode in the low four bits of a reply's second flags octet
reply_rcode(data) == data[4] % 16

\* C4: a datagram whose parse fails is answered with SERVFAIL and leaves the
\* incoming thread alive, so that later requests are still enqueued.
C4_ParseFailureIsSurvived ==
    \A i \in 1..Len(received) :
        ~received[i].ok =>
            /\ incoming = "recv"
            /\ \E j \in 1..Len(replies) :
                  /\ replies[j].dst = received[i].src
                  /\ reply_rcode(replies[j].data) = ResultCode_to_num("SERVFAIL")

\* C18: in every interleaving, spurious returns of Condvar::wait included,
\* a handler that returns from wait finds a request in the queue, so no
\* handler executes unreachable!() and panics.
C18_UnreachableNeverExecuted ==
    \A t \in Threads : handlers[t].pc # "panicked"

\* handler threads are scheduled: a handler that can take a step of its
\* loop takes it. A return of wait that no notify_one caused and the
\* arrival of a datagram are not owed to anyone.
HandlerStep(t) ==
    \/ HandlerWait(t)
    \/ HandlerPop(t)
    \/ HandlerUnreachable(t)
    \/ HandlerHandle(t)

SpecFair == Spec /\ \A t \in Threads : WF_vars(HandlerStep(t))

\* the datagrams that were parsed and pushed on the queue, in order of
\* arrival
Pushed == SelectSeq(received, LAMBDA m : m.ok)

\* every pushed request is in the queue, with a handler or answered, and
\* the queue holds the latest arrivals in their order
ExactlyOnceFifo ==
    /\ Len(replies) + Cardinality({ t \in Threads : handlers[t].pc = "handling" })
          + Len(request_queue) = Len(Pushed)
    /\ \A i \in 1..Len(request_queue) :
          /\ request_queue[i].src
                = Pushed[Len(Pushed) - Len(request_queue) + i].src
          /\ request_queue[i].request.header.id
                = wire_u16(Pushed[Len(Pushed) - Len(request_queue) + i].datagram, 1)

\* C17: with handler threads scheduled fairly, every request pushed on the
\* queue is eventually popped and handled, exactly once and in order of
\* arrival, also when no handler was waiting at the notify_one.
C17_EveryRequestHandled ==
    /\ []ExactlyOnceFifo
    /\ \A n \in 1..MaxDatagrams : (Len(Pushed) >= n) ~> (Len(replies) >= n)

====
